---- MODULE Spec2Model ----
(***************************************************************************)
(* The turn engine of main.py: the grid (GameMap), the players (Player),   *)
(* the turn queue (a deque popped on the right) and Game.__action with its *)
(* handlers.  Game.__action never returns: every path through a handler    *)
(* ends in sys.exit() or in another call of __action, so the statements    *)
(* that follow a call of __action inside a handler are never executed and  *)
(* a call of __action is a jump to the next turn.  A run starts from        *)
(* Game.__start (every player at the spawn point) or from Game.__load of   *)
(* a save file; a step is either __action up to its input() or the         *)
(* handling of the command read there.                                     *)
(***************************************************************************)
EXTENDS Integers, Sequences, FiniteSets, TLC

\* ------------------------------------------------------------ constants
INITIAL_HEALTH == 5
HEAL_POINTS == 3
FIRE_AMOUNT == 4

INITIAL_PLAIN ==
    << <<"X", "X", "X", "X", "H", " ", " ", "F">>,
       <<"X", "X", "K", "X", "X", " ", "X", "X">>,
       <<"X", " ", " ", " ", "X", " ", "H", "X">>,
       <<" ", " ", "X", " ", " ", " ", "X", "X">> >>

SPAWN_POINT == <<3, 0>>

BLOCKED == "X"
FREE == " "
KEY == "K"
HEALTH == "H"
FINISH == "F"
FIRE == "D"

SAVE == "s"
UP == "u"
DOWN == "d"
LEFT == "l"
RIGHT == "r"
HEAL == "h"
\* TAKE in main.py (a reserved word here)
TAKE_ == "t"
FIGHT == "f"

\* direction is key, vector is value
move == [u |-> <<-1, 0>>, d |-> <<1, 0>>, l |-> <<0, -1>>, r |-> <<0, 1>>]

\* Python's None (Player.prev before the first move)
None == <<>>

\* ------------------------------------------------------------ bounds
\* players entered at startup, or stored in a save file
MaxPlayers == 2
\* commands read by one run of the game
MaxTurns == 3
\* outcomes of random.sample(WHITE_CELLS, FIRE_AMOUNT) that are explored
FireDraws == 2

\* ------------------------------------------------------------ the grid
Rows == Len(INITIAL_PLAIN)
Cols == Len(INITIAL_PLAIN[1])
Cells == (0 .. Rows - 1) \X (0 .. Cols - 1)

\* GameMap.__init__: a grid is a function from (row, col) to its marker, made
\* of the rows it is given
GameMap(rows) == [c \in Cells |-> rows[c[1] + 1][c[2] + 1]]

InitialMap == GameMap(INITIAL_PLAIN)

\* GameMap.plain: the rows of a grid
plain_rows(gm) == [r \in 1 .. Rows |-> [c \in 1 .. Cols |-> gm[<<r - 1, c - 1>>]]]

\* position of a cell in the row-by-row scan of the nested loops
RowMajor(c) == c[1] * Cols + c[2]

RECURSIVE white_cells_from(_, _)
white_cells_from(plain, k) ==
    IF k = Rows * Cols THEN <<>>
    ELSE LET c == <<k \div Cols, k % Cols>>
         IN  (IF plain[c] = FREE THEN <<c>> ELSE <<>>) \o white_cells_from(plain, k + 1)

white_cells(plain) == white_cells_from(plain, 0)

\* computed once, from the initial layout
WHITE_CELLS == white_cells(InitialMap)

\* the i-th explored outcome of random.sample(WHITE_CELLS, FIRE_AMOUNT):
\* FIRE_AMOUNT distinct cells of WHITE_CELLS
FireDraw(i) ==
    { WHITE_CELLS[((FIRE_AMOUNT * i + j) % Len(WHITE_CELLS)) + 1] : j \in 0 .. FIRE_AMOUNT - 1 }

mark_cell(plain, pos, cell) == [plain EXCEPT ![pos] = cell]

\* many for fire, once for key: without many only the first hit of the scan is cleared
clear_cell(plain, cell, many) ==
    LET hits == {c \in Cells : plain[c] = cell}
        first == CHOOSE c \in hits : \A d \in hits : RowMajor(c) <= RowMajor(d)
    IN  [c \in Cells |-> IF plain[c] = cell /\ (many \/ c = first) THEN FREE ELSE plain[c]]

spawn_fire(plain, fire_cells) ==
    [c \in Cells |-> IF c \in fire_cells THEN FIRE ELSE plain[c]]

clear_fire(plain) == clear_cell(plain, FIRE, TRUE)

spawn_key(plain, pos) == mark_cell(plain, pos, KEY)

clear_key(plain) == clear_cell(plain, KEY, FALSE)

is_fire(plain, pos) == plain[pos] = FIRE

is_heal(plain, pos) == plain[pos] = HEALTH

is_key(plain, pos) == plain[pos] = KEY

\* the list holds the command letter HEAL ('h'), not the marker HEALTH ('H')
is_heal_or_key(plain, pos) == plain[pos] \in {KEY, HEAL}

is_finish(plain, pos) == plain[pos] = FINISH

\* is_valid_move without the test of the marker
is_valid_move_inside(plain, dydx, p) ==
    LET pos == <<p.cur[1] + dydx[1], p.cur[2] + dydx[2]>>
    IN  0 <= pos[1] /\ pos[1] < Rows /\ 0 <= pos[2] /\ pos[2] < Cols

is_valid_move(plain, dydx, p) ==
    LET pos == <<p.cur[1] + dydx[1], p.cur[2] + dydx[2]>>
        is_inside_map == 0 <= pos[1] /\ pos[1] < Rows /\ 0 <= pos[2] /\ pos[2] < Cols
    IN  IF ~is_inside_map THEN is_inside_map ELSE plain[pos] # BLOCKED

\* ------------------------------------------------------------ a player
\* Player.__init__ with falsy values taken for missing ones
Player_or_default(kw) ==
    [name    |-> kw.name,
     health  |-> IF "health" \in DOMAIN kw /\ kw.health # 0 THEN kw.health ELSE INITIAL_HEALTH,
     has_key |-> IF "has_key" \in DOMAIN kw THEN kw.has_key ELSE FALSE,
     cur     |-> IF "cur" \in DOMAIN kw THEN kw.cur ELSE SPAWN_POINT,
     prev    |-> IF "prev" \in DOMAIN kw THEN kw.prev ELSE None,
     hp      |-> IF "hp" \in DOMAIN kw /\ kw.hp # 0 THEN kw.hp ELSE HEAL_POINTS]

\* Player.__init__ with the keyword arguments kw: a keyword that is left out is
\* None and gets its default (prev stays None)
Player(kw) ==
    [name    |-> kw.name,
     health  |-> IF "health" \in DOMAIN kw THEN kw.health ELSE INITIAL_HEALTH,
     has_key |-> IF "has_key" \in DOMAIN kw THEN kw.has_key ELSE FALSE,
     cur     |-> IF "cur" \in DOMAIN kw THEN kw.cur ELSE SPAWN_POINT,
     prev    |-> IF "prev" \in DOMAIN kw THEN kw.prev ELSE None,
     hp      |-> IF "hp" \in DOMAIN kw THEN kw.hp ELSE HEAL_POINTS]

\* Player(name=name)
NewPlayer(name) == Player([name |-> name])

\* can_heal without the test against the maximum
can_heal_any_health(p) == p.hp > 0

can_heal(p) == p.hp > 0 /\ p.health < INITIAL_HEALTH

is_alive(p) == p.health > 0

assign_key(p) == [p EXCEPT !.has_key = TRUE]

drop_key(p) == [p EXCEPT !.has_key = FALSE]

receive_damage(p) == [p EXCEPT !.health = @ - 1]

restore_health(p) == [p EXCEPT !.health = INITIAL_HEALTH]

heal(p) == [p EXCEPT !.health = @ + 1, !.hp = @ - 1]

is_step_back(p, dydx) == p.prev = <<p.cur[1] + dydx[1], p.cur[2] + dydx[2]>>

\* Player.move without the record of the position left
player_move_forgets(p, dydx) ==
    [p EXCEPT !.cur = <<p.cur[1] + dydx[1], p.cur[2] + dydx[2]>>]

player_move(p, dydx) ==
    [p EXCEPT !.prev = p.cur, !.cur = <<p.cur[1] + dydx[1], p.cur[2] + dydx[2]>>]

\* ------------------------------------------------------------ the deque
\* index 1 is the left end; pop() takes the right end
appendleft(q, i) == <<i>> \o q

append(q, i) == Append(q, i)

\* a pop that leaves the player queued
pop_keeps(q) == q

pop_rest(q) == SubSeq(q, 1, Len(q) - 1)

pop_item(q) == q[Len(q)]

\* deque.remove: the first occurrence only
RECURSIVE remove(_, _)
remove(q, i) ==
    IF q = <<>> THEN <<>>
    ELSE IF Head(q) = i THEN Tail(q)
    ELSE <<Head(q)>> \o remove(Tail(q), i)

InQueue(q, i) == \E k \in 1 .. Len(q) : q[k] = i


\* ------------------------------------------------------------ save files
\* the name entered for the n-th player, or stored for it
NameOf(n) == "P" \o ToString(n)

\* SaveManager.save: what json.dump writes, the six attributes of every queued
\* player from left to right and the rows of the grid
save(q, ps, gm) ==
    [queue |-> [k \in 1 .. Len(q) |->
                   [name    |-> ps[q[k]].name,
                    health  |-> ps[q[k]].health,
                    has_key |-> ps[q[k]].has_key,
                    cur     |-> ps[q[k]].cur,
                    prev    |-> ps[q[k]].prev,
                    hp      |-> ps[q[k]].hp]],
     map   |-> plain_rows(gm)]

\* SaveManager.load: the grid and the deque made of what json.load reads
\* (players from left to right)
SaveManager_load(data) ==
    [map   |-> GameMap(data.map),
     queue |-> [k \in 1 .. Len(data.queue) |-> Player(data.queue[k])]]

\* where the stored players stand (cur, prev): below the key's cell, between
\* a heal cell and the way to the finish, and next to the finish
SavedSpots ==
    { [cur |-> <<2, 2>>, prev |-> <<2, 1>>],
      [cur |-> <<0, 5>>, prev |-> <<1, 5>>],
      [cur |-> <<0, 6>>, prev |-> <<0, 5>>] }

\* health and heal points of a stored player: one hit from death, one heal left
SavedStats == [health |-> 1, hp |-> 1]

\* n stored players standing together; holder has the key (0: nobody has it)
SavedQueue(n, sp, holder) ==
    [i \in 1 .. n |->
        [name |-> NameOf(i), health |-> SavedStats.health, has_key |-> (i = holder),
         cur |-> sp.cur, prev |-> sp.prev, hp |-> SavedStats.hp]]

\* the key is on its initial cell unless a stored player holds it; the fire
\* is where the turn of the save put it
SavedMap(holder) ==
    spawn_fire(IF holder # 0 THEN clear_key(InitialMap) ELSE InitialMap, FireDraw(0))

\* the contents of save.json that are explored
SaveFiles ==
    { [queue |-> SavedQueue(f[1], f[2], f[3]), map |-> plain_rows(SavedMap(f[3]))] :
        f \in {g \in (1 .. MaxPlayers) \X SavedSpots \X (0 .. MaxPlayers) : g[3] <= g[1]} }

\* ------------------------------------------------------------ the game
VARIABLES
    plain,      \* GameMap.__plain
    players,    \* the Player objects, by identity
    queue,      \* Game.__queue, identities from left to right
    pc,         \* "action": entering __action; "input": at input(); "won"; "over"
    player,     \* __action's local player
    key,        \* __action's local key
    log,        \* what the last step logged: <<event, player>> from oldest to newest
    turns,      \* commands read so far
    file        \* save.json: <<>> when there is none, else <<its contents>>

vars == <<plain, players, queue, pc, player, key, log, turns, file>>

NoKey == ""
\* any string that is no command
OtherKey == "x"
Inputs == {SAVE, UP, DOWN, LEFT, RIGHT, HEAL, TAKE_, FIGHT, OtherKey}

\* Game.__start after num names were entered
start(num) ==
    /\ players = [i \in 1 .. num |-> NewPlayer(NameOf(i))]
    /\ queue = [i \in 1 .. num |-> num + 1 - i]
    /\ plain = InitialMap
    /\ file = <<>>

\* Game.__load of SaveManager.load()
load(data) ==
    /\ players = SaveManager_load(data).queue
    /\ queue = [i \in 1 .. Len(data.queue) |-> i]
    /\ plain = SaveManager_load(data).map
    /\ file = <<data>>

\* Game.run up to its call of __action
run ==
    \/ \E num \in 0 .. MaxPlayers : start(num)
    \/ \E data \in SaveFiles : load(data)

Init ==
    /\ run
    /\ pc = "action"
    /\ player = 0
    /\ key = NoKey
    /\ log = <<>>
    /\ turns = 0

\* a handler's writes, and the jump to the next turn (or the exit)
resolve(ps, gm, q, k, lg, next) ==
    /\ players' = ps
    /\ plain' = gm
    /\ queue' = q
    /\ key' = k
    /\ log' = lg
    /\ pc' = next
    /\ UNCHANGED <<player, turns, file>>

\* the death handling without its spawn_key
drop_key_without_marker(st, i) ==
    [players |-> IF st.players[i].has_key
                 THEN [st.players EXCEPT ![i] = drop_key(@)] ELSE st.players,
     plain   |-> st.plain,
     queue   |-> IF InQueue(st.queue, i) THEN remove(st.queue, i) ELSE st.queue]

\* the death handling without its has_key test
drop_key_untested(st, i) ==
    [players |-> [st.players EXCEPT ![i] = drop_key(@)],
     plain   |-> spawn_key(st.plain, st.players[i].cur),
     queue   |-> IF InQueue(st.queue, i) THEN remove(st.queue, i) ELSE st.queue]

\* __drop_key_and_kick_after_death on st = [players, plain, queue]
drop_key_and_kick_after_death(st, i) ==
    [players |-> IF st.players[i].has_key
                 THEN [st.players EXCEPT ![i] = drop_key(@)] ELSE st.players,
     plain   |-> IF st.players[i].has_key
                 THEN spawn_key(st.plain, st.players[i].cur) ELSE st.plain,
     queue   |-> IF InQueue(st.queue, i) THEN remove(st.queue, i) ELSE st.queue]

\* __action with an empty queue
no_players_left ==
    /\ pc = "action"
    /\ Len(queue) = 0
    /\ pc' = "over"
    /\ log' = <<<<"no_players_left", 0>>>>
    /\ UNCHANGED <<plain, players, queue, player, key, turns, file>>

\* __action up to input(): clear the fire, spawn the fire, pop the player
action(draw) ==
    /\ pc = "action"
    /\ Len(queue) # 0
    /\ turns < MaxTurns
    /\ plain' = spawn_fire(clear_fire(plain), FireDraw(draw))
    /\ player' = pop_item(queue)
    /\ queue' = pop_rest(queue)
    /\ pc' = "input"
    /\ key' = NoKey
    /\ log' = <<<<"fire_spawned", 0>>>>
    /\ turns' = turns + 1
    /\ UNCHANGED <<players, file>>

\* the player is queued again before the file is written; the file is read
\* again only by a later run of the program
handle_save ==
    /\ pc = "input"
    /\ queue' = append(queue, player)
    /\ file' = <<save(queue', players, plain)>>
    /\ key' = SAVE
    /\ log' = <<<<"saved", player>>>>
    /\ pc' = "action"
    /\ UNCHANGED <<players, plain, player, turns>>

\* __check_hit_wall without its receive_damage
check_hit_wall_unhurt(k) ==
    /\ pc = "input"
    /\ k \in DOMAIN move
    /\ ~is_valid_move(plain, move[k], players[player])
    /\ resolve(players, plain, appendleft(queue, player), k,
               <<<<"hit_wall", player>>>>, "action")

check_hit_wall(k) ==
    /\ pc = "input"
    /\ k \in DOMAIN move
    /\ ~is_valid_move(plain, move[k], players[player])
    /\ LET hurt == [players EXCEPT ![player] = receive_damage(@)]
           dead == drop_key_and_kick_after_death(
                       [players |-> hurt, plain |-> plain, queue |-> queue], player)
       IN  IF ~is_alive(hurt[player])
           THEN resolve(dead.players, dead.plain, dead.queue, k,
                        <<<<"hit_wall", player>>, <<"died", player>>>>, "action")
           ELSE resolve(hurt, plain, appendleft(queue, player), k,
                        <<<<"hit_wall", player>>>>, "action")

\* the move is neither into a wall nor a penalised step back
passes(k) ==
    /\ k \in DOMAIN move
    /\ is_valid_move(plain, move[k], players[player])
    /\ ~(is_step_back(players[player], move[k])
         /\ ~is_heal_or_key(plain, players[player].cur))

check_step_back(k) ==
    /\ pc = "input"
    /\ k \in DOMAIN move
    /\ is_valid_move(plain, move[k], players[player])
    /\ is_step_back(players[player], move[k])
    /\ ~is_heal_or_key(plain, players[player].cur)
    /\ resolve(players, plain, queue, k, <<<<"stepped_back", player>>>>, "action")

\* the players after p.move(dydx)
moved(k) == [players EXCEPT ![player] = player_move(@, move[k])]

\* what __handle_move logs before its checks
check_other_players_on_cell(k) ==
    <<<<"new_position", player>>>> \o
    (IF \E j \in 1 .. Len(queue) : moved(k)[queue[j]].cur = moved(k)[player].cur
     THEN <<<<"others_present", player>>>> ELSE <<>>)

check_step_on_fire(k) ==
    /\ pc = "input"
    /\ passes(k)
    /\ is_fire(plain, moved(k)[player].cur)
    /\ LET hurt == [moved(k) EXCEPT ![player] = receive_damage(@)]
           dead == drop_key_and_kick_after_death(
                       [players |-> hurt, plain |-> plain, queue |-> queue], player)
       IN  IF ~is_alive(hurt[player])
           THEN resolve(dead.players, dead.plain, dead.queue, k,
                        check_other_players_on_cell(k) \o
                        <<<<"stepped_on_fire", player>>, <<"died", player>>>>, "action")
           ELSE resolve(hurt, plain, appendleft(queue, player), k,
                        check_other_players_on_cell(k) \o
                        <<<<"stepped_on_fire", player>>>>, "action")

\* __check_cell_has_key picking the key up
check_cell_has_key_pickup(k) ==
    /\ pc = "input"
    /\ passes(k)
    /\ ~is_fire(plain, moved(k)[player].cur)
    /\ is_key(plain, moved(k)[player].cur)
    /\ resolve([moved(k) EXCEPT ![player] = assign_key(@)], clear_key(plain),
               appendleft(queue, player), k,
               check_other_players_on_cell(k) \o <<<<"cell_has_key", player>>>>, "action")

check_cell_has_key(k) ==
    /\ pc = "input"
    /\ passes(k)
    /\ ~is_fire(plain, moved(k)[player].cur)
    /\ is_key(plain, moved(k)[player].cur)
    /\ resolve(moved(k), plain, appendleft(queue, player), k,
               check_other_players_on_cell(k) \o <<<<"cell_has_key", player>>>>, "action")

check_cell_is_heal(k) ==
    /\ pc = "input"
    /\ passes(k)
    /\ ~is_fire(plain, moved(k)[player].cur)
    /\ ~is_key(plain, moved(k)[player].cur)
    /\ is_heal(plain, moved(k)[player].cur)
    /\ resolve([moved(k) EXCEPT ![player] = restore_health(@)], plain,
               appendleft(queue, player), k,
               check_other_players_on_cell(k) \o <<<<"restored_health", player>>>>, "action")

\* the finish check without its has_key test
check_finish_untested(k) ==
    /\ pc = "input"
    /\ passes(k)
    /\ ~is_fire(plain, moved(k)[player].cur)
    /\ ~is_key(plain, moved(k)[player].cur)
    /\ ~is_heal(plain, moved(k)[player].cur)
    /\ is_finish(plain, moved(k)[player].cur)
    /\ resolve(moved(k), plain, queue, k,
               check_other_players_on_cell(k) \o <<<<"won", player>>>>, "won")

check_finish(k) ==
    /\ pc = "input"
    /\ passes(k)
    /\ ~is_fire(plain, moved(k)[player].cur)
    /\ ~is_key(plain, moved(k)[player].cur)
    /\ ~is_heal(plain, moved(k)[player].cur)
    /\ is_finish(plain, moved(k)[player].cur)
    /\ LET dead == drop_key_and_kick_after_death(
                       [players |-> moved(k), plain |-> plain, queue |-> queue], player)
       IN  IF moved(k)[player].has_key
           THEN resolve(moved(k), plain, queue, k,
                        check_other_players_on_cell(k) \o <<<<"won", player>>>>, "won")
           ELSE resolve(dead.players, dead.plain, dead.queue, k,
                        check_other_players_on_cell(k) \o
                        <<<<"finish_without_key", player>>, <<"died", player>>>>, "action")

\* the final requeue with append
handle_move_append(k) ==
    /\ pc = "input"
    /\ passes(k)
    /\ ~is_fire(plain, moved(k)[player].cur)
    /\ ~is_key(plain, moved(k)[player].cur)
    /\ ~is_heal(plain, moved(k)[player].cur)
    /\ ~is_finish(plain, moved(k)[player].cur)
    /\ resolve(moved(k), plain, append(queue, player), k,
               check_other_players_on_cell(k), "action")

\* __handle_move when no check took the turn
handle_move(k) ==
    /\ pc = "input"
    /\ passes(k)
    /\ ~is_fire(plain, moved(k)[player].cur)
    /\ ~is_key(plain, moved(k)[player].cur)
    /\ ~is_heal(plain, moved(k)[player].cur)
    /\ ~is_finish(plain, moved(k)[player].cur)
    /\ resolve(moved(k), plain, appendleft(queue, player), k,
               check_other_players_on_cell(k), "action")

handle_heal ==
    /\ pc = "input"
    /\ IF can_heal(players[player])
       THEN resolve([players EXCEPT ![player] = heal(@)], plain,
                    appendleft(queue, player), HEAL, <<<<"healed", player>>>>, "action")
       ELSE resolve(players, plain, append(queue, player), HEAL,
                    <<<<"heal_refused", player>>>>, "action")

\* __handle_key with the two ends of the queue exchanged
handle_key_swapped ==
    /\ pc = "input"
    /\ IF is_key(plain, players[player].cur)
       THEN resolve([players EXCEPT ![player] = assign_key(@)], clear_key(plain),
                    append(queue, player), TAKE_, <<<<"took_key", player>>>>, "action")
       ELSE resolve(players, plain, appendleft(queue, player), TAKE_,
                    <<<<"no_key_here", player>>>>, "action")

handle_key ==
    /\ pc = "input"
    /\ IF is_key(plain, players[player].cur)
       THEN resolve([players EXCEPT ![player] = assign_key(@)], clear_key(plain),
                    appendleft(queue, player), TAKE_, <<<<"took_key", player>>>>, "action")
       ELSE resolve(players, plain, append(queue, player), TAKE_,
                    <<<<"no_key_here", player>>>>, "action")

\* the first loop of __handle_fight from the k-th queued player on:
\* st = [players, killed, log]
RECURSIVE fight_damage(_, _, _, _)
fight_damage(st, q, k, p) ==
    IF k > Len(q) THEN st
    ELSE IF st.players[q[k]].cur # st.players[p].cur THEN fight_damage(st, q, k + 1, p)
    ELSE LET hurt == [st.players EXCEPT ![q[k]] = receive_damage(@)]
         IN  fight_damage(
                 [players |-> hurt,
                  killed  |-> IF ~is_alive(hurt[q[k]]) THEN Append(st.killed, q[k])
                              ELSE st.killed,
                  log     |-> Append(st.log, <<"received_damage", q[k]>>)],
                 q, k + 1, p)

\* the second loop of __handle_fight: st = [players, plain, queue]
RECURSIVE fight_kick(_, _)
fight_kick(st, killed) ==
    IF killed = <<>> THEN st
    ELSE fight_kick(drop_key_and_kick_after_death(st, Head(killed)), Tail(killed))

RECURSIVE died_log(_)
died_log(killed) ==
    IF killed = <<>> THEN <<>> ELSE <<<<"died", Head(killed)>>>> \o died_log(Tail(killed))

\* __handle_fight with the fighter among the players it scans
handle_fight_hits_self ==
    /\ pc = "input"
    /\ LET hit == fight_damage([players |-> players, killed |-> <<>>, log |-> <<>>],
                               append(queue, player), 1, player)
           out == fight_kick([players |-> hit.players, plain |-> plain, queue |-> queue],
                             hit.killed)
       IN  resolve(out.players, out.plain, appendleft(out.queue, player), FIGHT,
                   hit.log \o died_log(hit.killed), "action")

handle_fight ==
    /\ pc = "input"
    /\ LET hit == fight_damage([players |-> players, killed |-> <<>>, log |-> <<>>],
                               queue, 1, player)
           out == fight_kick([players |-> hit.players, plain |-> plain, queue |-> queue],
                             hit.killed)
       IN  resolve(out.players, out.plain, appendleft(out.queue, player), FIGHT,
                   hit.log \o died_log(hit.killed), "action")

\* the else branch with appendleft
invalid_key_appendleft ==
    /\ pc = "input"
    /\ resolve(players, plain, appendleft(queue, player), OtherKey,
               <<<<"invalid_key", player>>>>, "action")

invalid_key ==
    /\ pc = "input"
    /\ resolve(players, plain, append(queue, player), OtherKey,
               <<<<"invalid_key", player>>>>, "action")

Next ==
    \/ no_players_left
    \/ \E draw \in 0 .. FireDraws - 1 : action(draw)
    \/ handle_save
    \/ \E k \in DOMAIN move : check_hit_wall(k)
    \/ \E k \in DOMAIN move : check_step_back(k)
    \/ \E k \in DOMAIN move : check_step_on_fire(k)
    \/ \E k \in DOMAIN move : check_cell_has_key(k)
    \/ \E k \in DOMAIN move : check_cell_is_heal(k)
    \/ \E k \in DOMAIN move : check_finish(k)
    \/ \E k \in DOMAIN move : handle_move(k)
    \/ handle_heal
    \/ handle_key
    \/ handle_fight
    \/ invalid_key

Spec == Init /\ [][Next]_vars

\* Game.run of a game started afresh, or of one loaded from a file that such a
\* game wrote before anybody took the key
FreshInit == Init /\ \A i \in DOMAIN players : ~players[i].has_key

FreshSpec == FreshInit /\ [][Next]_vars


\* ------------------------------------------------------------ properties
KeyCells(gm) == {c \in Cells : gm[c] = KEY}

Logged(lg, event, i) == \E n \in 1 .. Len(lg) : lg[n] = <<event, i>>

\* a step that resolves the command read at input()
Handled == pc = "input" /\ pc' # "input"

\* a step of __handle_move that changed the mover's position
MoveApplied ==
    /\ Handled
    /\ key' \in DOMAIN move
    /\ players'[player].cur # players[player].cur

\* the cell a Move with command k aims at
Target(k) == <<players[player].cur[1] + move[k][1], players[player].cur[2] + move[k][2]>>

\* player i's health reaches 0 in this step
Dies(i) == players[i].health > 0 /\ players'[i].health = 0

\* C1: a Move onto the Finish cell by a key holder ends the game at once in the
\* won state, from which no step is taken; by a player without the key it
\* leaves the mover out of the queue, the queue and every Key cell as they
\* were, and the next step prompts the next queued player (or ends the game
\* when none is left).
C1_FinishRule ==
    [][ /\ pc # "won"
        /\ (MoveApplied /\ plain[players'[player].cur] = FINISH) =>
              IF players[player].has_key
              THEN pc' = "won"
              ELSE /\ pc' = "action"
                   /\ ~InQueue(queue', player)
                   /\ queue' = queue
                   /\ ~players'[player].has_key
                   /\ KeyCells(plain') = KeyCells(plain)
        /\ (pc = "action" /\ Logged(log, "finish_without_key", player)) =>
              IF queue = <<>> THEN pc' = "over"
              ELSE pc' = "input" /\ player' = queue[Len(queue)]
      ]_vars

C1_Witness ==
    /\ pc = "won"
    /\ key \in DOMAIN move
    /\ players[player].has_key
    /\ plain[players[player].cur] = FINISH
    /\ players[player].prev # None

\* C2: a Move back to the previous position removes the mover, unmoved and
\* not requeued, when the mover stands on neither a Heal nor a Key cell, and
\* is applied when the mover stands on a Heal cell or a Key cell.
C2_StepBackRule ==
    [][ (Handled /\ key' \in DOMAIN move /\ players[player].prev = Target(key')) =>
            IF plain[players[player].cur] \notin {HEALTH, KEY}
            THEN /\ ~InQueue(queue', player)
                 /\ queue' = queue
                 /\ players' = players
            ELSE /\ players'[player].cur = players[player].prev
                 /\ players'[player].prev = players[player].cur
      ]_vars

\* C3: a player whose health reaches 0 while holding the key leaves the Key
\* marker on the cell of the death, holds the key no more and is not queued;
\* a player who dies without the key (reaching Finish without it included) is
\* not queued and adds no Key cell: after the step the Key cells are those of
\* before plus the cells where key holders died.
C3_DeathHandling ==
    [][ Handled =>
          \A i \in DOMAIN players :
            (\/ Dies(i)
             \/ (i = player /\ MoveApplied /\ plain[players'[i].cur] = FINISH
                 /\ ~players[i].has_key)) =>
              /\ ~InQueue(queue', i)
              /\ ~players'[i].has_key
              /\ players[i].has_key => plain'[players'[i].cur] = KEY
              /\ KeyCells(plain') =
                    KeyCells(plain) \cup
                    {players'[j].cur : j \in {n \in DOMAIN players : Dies(n) /\ players[n].has_key}}
      ]_vars

\* a key holder killed in a Fight on a cell that was free at the start
C3_Witness ==
    /\ pc = "action"
    /\ key = FIGHT
    /\ \E i \in DOMAIN players :
          /\ Logged(log, "died", i)
          /\ players[i].health = 0
          /\ ~players[i].has_key
          /\ ~InQueue(queue, i)
          /\ plain[players[i].cur] = KEY
          /\ InitialMap[players[i].cur] = FREE


\* a Move that passed every check: applied, and not onto Hazard, Key, Heal or Finish
PassedMove ==
    /\ MoveApplied
    /\ plain[players'[player].cur] \notin {FIRE, KEY, HEALTH, FINISH}

\* a step of __action from its entry to input()
Prompted == pc = "action" /\ pc' = "input"

\* C4 as claimed: after a Move that passes every check with other players
\* waiting, the mover is the next player dequeued.
C4_MoverDueAgain ==
    [][ /\ (PassedMove /\ queue # <<>>) => queue'[Len(queue')] = player
        /\ (Prompted /\ key \in DOMAIN move /\ Len(queue) > 1
            /\ Logged(log, "new_position", player) /\ Len(log) = 1) => player' = player
      ]_vars

\* C4 as amended: after a Move that passes every check the mover is put at the
\* end of the queue opposite to the one players are dequeued from, behind every
\* waiting player, and each prompt dequeues the player at the other end.
C4_MoverDueLast ==
    [][ /\ PassedMove => queue' = <<player>> \o queue
        /\ Prompted => /\ player' = queue[Len(queue)]
                       /\ queue' = SubSeq(queue, 1, Len(queue) - 1)
      ]_vars

\* players 1 and 2 at the spawn point, 1 has moved Right into a free cell
C4_Witness ==
    /\ pc = "action"
    /\ key = RIGHT
    /\ queue = <<1, 2>>
    /\ player = 1
    /\ players[1].cur = <<3, 1>>
    /\ players[1].prev = SPAWN_POINT
    /\ players[2].cur = SPAWN_POINT
    /\ plain[players[1].cur] = FREE
    /\ turns < MaxTurns

\* C5 as claimed: after an Invalid command with other players queued, another
\* player is prompted next.
C5_FullTurnLost ==
    [][ (Prompted /\ key = OtherKey /\ Len(queue) > 1) => player' # player ]_vars

\* C5 as amended: an Invalid command puts the player back at the end the
\* queue is dequeued from and changes neither a player nor the grid, and the
\* next prompt is for the same player.
C5_PromptedAgain ==
    [][ /\ (Handled /\ key' = OtherKey) =>
              /\ queue' = Append(queue, player)
              /\ players' = players
              /\ plain' = plain
        /\ (Prompted /\ key = OtherKey) => player' = player /\ players' = players
      ]_vars

C5_Witness ==
    /\ pc = "action"
    /\ key = OtherKey
    /\ Len(queue) > 1
    /\ queue[Len(queue)] = player
    /\ turns < MaxTurns

C7_OneFinishOneKey ==
    /\ {c \in Cells : plain[c] = FINISH} = {c \in Cells : InitialMap[c] = FINISH}
    /\ Cardinality({c \in Cells : InitialMap[c] = FINISH}) = 1
    /\ Cardinality(KeyCells(plain)) <= 1

\* the key lies where a dead holder dropped it, and the fire has respawned since
C7_Witness ==
    /\ pc = "input"
    /\ \E c \in Cells : plain[c] = KEY /\ InitialMap[c] # KEY
    /\ \E i \in DOMAIN players : players[i].health = 0 /\ plain[players[i].cur] = KEY

\* C8: health stays within 0..INITIAL_HEALTH and heal points within
\* 0..HEAL_POINTS, and a player with health 0 is neither queued nor prompted.
C8_HealthBounds ==
    \A i \in DOMAIN players :
        /\ players[i].health \in 0 .. INITIAL_HEALTH
        /\ players[i].hp \in 0 .. HEAL_POINTS
        /\ players[i].health = 0 => ~InQueue(queue, i) /\ ~(pc = "input" /\ player = i)

\* a Heal refused with a heal point left, at the full health a Heal cell restored
C8_Witness ==
    /\ pc = "action"
    /\ key = HEAL
    /\ Logged(log, "heal_refused", player)
    /\ players[player].health = INITIAL_HEALTH
    /\ players[player].hp > 0
    /\ plain[players[player].cur] = HEALTH

\* C9: no player is queued twice, and the player whose command is awaited is
\* not queued.
C9_QueuedOnce ==
    /\ \A a, b \in 1 .. Len(queue) : a # b => queue[a] # queue[b]
    /\ pc = "input" => ~InQueue(queue, player)

\* a Fight has removed the player it killed and requeued the fighter
C9_Witness ==
    /\ pc = "action"
    /\ key = FIGHT
    /\ queue = <<player>>
    /\ \E i \in DOMAIN players : players[i].health = 0 /\ Logged(log, "died", i)

Tuples(q, ps) == [n \in 1 .. Len(q) |-> ps[q[n]]]

\* C11: the file a Save command writes, when loaded, gives the grid and the
\* ordered list of player tuples (name, health, has_key, cur, prev, hp) of the
\* state it was written from, a previous position of None included; its last
\* player is the saver, and the last queued player is the one dequeued next.
C11_SaveLoadRoundTrip ==
    [][ /\ (Handled /\ key' = SAVE) =>
              /\ file' # <<>>
              /\ SaveManager_load(file'[1]).map = plain'
              /\ SaveManager_load(file'[1]).queue = Tuples(queue', players')
              /\ SaveManager_load(file'[1]).queue[Len(file'[1].queue)] = players'[player]
        /\ Prompted => player' = queue[Len(queue)]
      ]_vars

\* player 2 saved before its first move, behind player 1 who has moved
C11_Witness ==
    /\ pc = "action"
    /\ key = SAVE
    /\ file # <<>>
    /\ Len(file[1].queue) = 2
    /\ file[1].queue[1].prev # None
    /\ file[1].queue[2].prev = None
    /\ file[1].queue[2].name = players[player].name
    /\ file[1].map = plain_rows(plain)

\* the cell at offset dydx from pos
Shifted(pos, dydx) == <<pos[1] + dydx[1], pos[2] + dydx[2]>>

\* C12: on every grid the game reaches, is_valid_move is false exactly when
\* the target is outside the grid or Blocked; a Move changes the mover's
\* position only to a target for which it is true, and leaves it alone
\* otherwise; every player stands inside the grid and not on a Blocked cell.
C12_ValidMove ==
    /\ [](/\ \A pos \in Cells : \A k \in DOMAIN move :
                is_valid_move(plain, move[k], [cur |-> pos]) <=>
                    ~(Shifted(pos, move[k]) \notin Cells \/ plain[Shifted(pos, move[k])] = BLOCKED)
          /\ \A i \in DOMAIN players :
                players[i].cur \in Cells /\ plain[players[i].cur] # BLOCKED)
    /\ [][ (Handled /\ key' \in DOMAIN move) =>
              /\ players'[player].cur \in {players[player].cur, Target(key')}
              /\ (Target(key') \notin Cells \/ plain[Target(key')] = BLOCKED) =>
                    players'[player].cur = players[player].cur
         ]_vars

\* a player who has moved once walked into a Blocked cell and stayed in place
C12_Witness ==
    /\ pc = "action"
    /\ key \in DOMAIN move
    /\ Logged(log, "hit_wall", player)
    /\ players[player].prev # None
    /\ Shifted(players[player].cur, move[key]) \in Cells
    /\ plain[Shifted(players[player].cur, move[key])] = BLOCKED

\* C13: the game can be won from a fresh start.  The Finish cell is reached
\* from the key's cell only through the cell below it, so a player who holds
\* the key leaves the key's cell by a Move to a cell that is not Blocked: the
\* Move is applied, and when the target is no Hazard the mover stays queued.
C13_HolderLeavesKeyCell ==
    [][ (/\ Handled
         /\ key' \in DOMAIN move
         /\ players[player].has_key
         /\ InitialMap[players[player].cur] = KEY
         /\ Target(key') \in Cells
         /\ plain[Target(key')] # BLOCKED) =>
            /\ players'[player].cur = Target(key')
            /\ plain[Target(key')] # FIRE => InQueue(queue', player)
      ]_vars

\* player i is queued or is the player whose command is awaited
InGame(i) == InQueue(queue, i) \/ (pc = "input" /\ player = i)

Holders == {i \in DOMAIN players : players[i].has_key}

\* C14: while the game goes on with a player left, either exactly one player
\* holds the key, that player is in the game and the grid has no Key cell, or
\* nobody holds the key and the grid has exactly one Key cell.
C14_KeyNeverLost ==
    (pc \in {"action", "input"} /\ (queue # <<>> \/ pc = "input")) =>
        \/ /\ Cardinality(Holders) = 1
           /\ \A i \in Holders : InGame(i)
           /\ KeyCells(plain) = {}
        \/ /\ Holders = {}
           /\ Cardinality(KeyCells(plain)) = 1

\* the queued players that are alive after the step, in the order they had
Survivors == SelectSeq(queue, LAMBDA i : players'[i].health > 0)

\* C15: a surviving wall hit, a surviving Hazard step, a Move that is applied
\* and leaves the mover in the game, a Heal that heals, a Take-key that takes
\* the key and a Fight all put the acting player at one end of the queue (the
\* left one); Save, an Invalid command, a refused Heal and a Take-key without
\* a key put the player at the other end (the right one); every prompt
\* dequeues at the right end; the first player entered at startup is the
\* first one prompted.
C15_RequeueEnds ==
    [][ /\ (Handled /\ key' \in DOMAIN move /\ players'[player].health > 0
            /\ ~(MoveApplied /\ plain[players'[player].cur] = FINISH)
            /\ ~(~MoveApplied /\ players' = players)) =>
              queue' = <<player>> \o queue
        /\ (Handled /\ key' = HEAL) =>
              IF players[player].hp > 0 /\ players[player].health < INITIAL_HEALTH
              THEN queue' = <<player>> \o queue
              ELSE queue' = Append(queue, player)
        /\ (Handled /\ key' = TAKE_) =>
              IF plain[players[player].cur] = KEY
              THEN queue' = <<player>> \o queue
              ELSE queue' = Append(queue, player)
        /\ (Handled /\ key' = FIGHT) => queue' = <<player>> \o Survivors
        /\ (Handled /\ key' \in {SAVE, OtherKey}) => queue' = Append(queue, player)
        /\ Prompted =>
              /\ player' = queue[Len(queue)]
              /\ queue' = SubSeq(queue, 1, Len(queue) - 1)
        /\ (Prompted /\ turns = 0 /\ file = <<>>) => players'[player'].name = NameOf(1)
      ]_vars

\* a Take-key that took the key, with another player waiting
C15_Witness ==
    /\ pc = "action"
    /\ key = TAKE_
    /\ players[player].has_key
    /\ Logged(log, "took_key", player)
    /\ Len(queue) = 2
    /\ queue[1] = player

\* C16: a Move whose target is outside the grid or Blocked takes exactly 1
\* from the mover's health and changes nothing else of any player but, at
\* health 0, the mover's key; at health 0 the mover is not queued, the queue
\* is as it was and the key, if held, is on the mover's cell; otherwise the
\* mover is queued again, with the waiting players in their order, and the
\* grid is as it was.
C16_WallHit ==
    [][ (/\ Handled
         /\ key' \in DOMAIN move
         /\ (Target(key') \notin Cells \/ plain[Target(key')] = BLOCKED)) =>
            /\ players'[player].health = players[player].health - 1
            /\ players'[player].cur = players[player].cur
            /\ players'[player].prev = players[player].prev
            /\ players'[player].hp = players[player].hp
            /\ players'[player].name = players[player].name
            /\ \A i \in DOMAIN players : i # player => players'[i] = players[i]
            /\ IF players'[player].health = 0
               THEN /\ queue' = queue
                    /\ ~InQueue(queue', player)
                    /\ ~players'[player].has_key
                    /\ plain' = IF players[player].has_key
                                THEN [plain EXCEPT ![players[player].cur] = KEY]
                                ELSE plain
               ELSE /\ InQueue(queue', player)
                    /\ SelectSeq(queue', LAMBDA i : i # player) = queue
                    /\ players'[player].has_key = players[player].has_key
                    /\ plain' = plain
      ]_vars

\* a key holder at health 1 walked into a Blocked cell
C16_Witness ==
    /\ pc = "action"
    /\ key \in DOMAIN move
    /\ Logged(log, "hit_wall", player)
    /\ Logged(log, "died", player)
    /\ players[player].health = 0
    /\ plain[players[player].cur] = KEY
    /\ ~InQueue(queue, player)
    /\ queue # <<>>

\* the queued players on the cell of the player whose command is handled
Victims == {i \in DOMAIN players : InQueue(queue, i) /\ players[i].cur = players[player].cur}

C18_TakeKey ==
    [][ /\ \A i \in DOMAIN players :
              (~players[i].has_key /\ players'[i].has_key) =>
                  /\ Handled
                  /\ key' = TAKE_
                  /\ i = player
                  /\ plain[players[i].cur] = KEY
        /\ (MoveApplied /\ plain[players'[player].cur] = KEY) =>
              /\ players'[player].has_key = players[player].has_key
              /\ plain'[players'[player].cur] = KEY
        /\ (Handled /\ key' = TAKE_) =>
              IF plain[players[player].cur] = KEY
              THEN /\ {c \in Cells : plain'[c] = KEY} = {}
                   /\ {i \in DOMAIN players : players'[i].has_key} = {player}
                   /\ \A c \in Cells : plain[c] # KEY => plain'[c] = plain[c]
              ELSE /\ players' = players
                   /\ plain' = plain
      ]_vars

\* the key a dead holder dropped on a cell that was free at the start was taken
C18_Witness ==
    /\ pc = "action"
    /\ key = TAKE_
    /\ Logged(log, "took_key", player)
    /\ players[player].has_key
    /\ InitialMap[players[player].cur] = FREE
    /\ plain[players[player].cur] = FREE
    /\ \E i \in DOMAIN players : i # player /\ players[i].health = 0

C20_MoveEffect ==
    [][ MoveApplied =>
            /\ players'[player].prev = players[player].cur
            /\ players'[player].cur = Target(key')
            /\ players'[player].health =
                  IF plain[Target(key')] = FIRE THEN players[player].health - 1
                  ELSE IF plain[Target(key')] = HEALTH THEN INITIAL_HEALTH
                  ELSE players[player].health
            /\ players'[player].hp = players[player].hp
            /\ players'[player].name = players[player].name
            /\ players'[player].has_key =
                  (players[player].has_key /\ players'[player].health > 0)
            /\ players'[player].health = 0 => ~InQueue(queue', player)
            /\ plain' = IF players[player].has_key /\ players'[player].health = 0
                        THEN [plain EXCEPT ![Target(key')] = KEY]
                        ELSE plain
            /\ \A i \in DOMAIN players : i # player => players'[i] = players[i]
      ]_vars

\* a player at health 1 moved onto a Heal cell
C20_Witness ==
    /\ pc = "action"
    /\ key \in DOMAIN move
    /\ Logged(log, "restored_health", player)
    /\ players[player].health = INITIAL_HEALTH
    /\ players[player].hp = SavedStats.hp
    /\ plain[players[player].cur] = HEALTH
    /\ players[player].prev = Shifted(players[player].cur, <<-move[key][1], -move[key][2]>>)
    /\ InQueue(queue, player)

====
